---- MODULE Spec2Model ----
(***************************************************************************)
(* Student-response report generation: the flat (student x question)       *)
(* result set of QueryService.get_student_responses, the pivot of          *)
(* ExcelService.pivot_student_data into one row per student, and the       *)
(* workbook written by ExcelService.generate_excel, driven by the          *)
(* /api/reports/student-responses handler.                                 *)
(***************************************************************************)
EXTENDS Integers, Sequences, FiniteSets, TLC

VARIABLES
    endpoint,       \* the route the request is for
    contest_id,     \* the request's contest_id parameter
    calls,          \* the service calls the handler has made, in order
    buffer,         \* the BytesIO generate_excel wrote to, as it was left
    response,       \* what the client is answered with
    tr_rows,        \* CCTTestResults rows matching the WHERE clause, in the
                    \* order the server returns them under the ORDER BY clause
    raw_df,         \* the frame get_student_responses returned
    pivoted_df,     \* the frame pivot_student_data returned
    excel_buffer,   \* the workbook generate_excel returned
    pc,             \* position of the handler
    service,        \* the attributes of the module-level ExcelService instance
    db,             \* the query-service calls on the database: the call in
                    \* progress, the connections and cursors opened so far
    gens            \* the concurrent calls of pivot_student_data: the frame
                    \* each was given, its locals and its position

vars == <<endpoint, contest_id, tr_rows, calls, raw_df, pivoted_df, buffer,
          excel_buffer, response, pc, service, db, gens>>

(***************************************************************************)
(* Bounds of the model.                                                    *)
(***************************************************************************)
MaxRows == 3          \* rows of a result set
MaxPivotRows == 3     \* rows of a frame handed to the pivot directly
MaxGenRows == 2       \* rows of a frame given to one of the concurrent pivots
MaxCalls == 2         \* query-service calls made one after the other

(***************************************************************************)
(* Cell values.  A cell holds a number, a string, a timestamp, a formatted *)
(* string or nothing (SQL NULL / pandas NaN); every value carries its kind *)
(* so that values of different kinds are comparable and never equal.       *)
(***************************************************************************)
Num(i) == <<"num", i>>
Str(s) == <<"str", s>>
Ts(d, t) == <<"datetime", <<d, t>>>>
FStr(parts) == <<"fstr", parts>>
NULL == <<"null", "">>
NaN == NULL

NONE == [columns |-> <<"none">>, rows |-> <<>>]

(***************************************************************************)
(* Sequence helpers.                                                       *)
(***************************************************************************)
Range(s) == {s[i] : i \in 1..Len(s)}

\* The function f as an explicit table: each value is computed once.
Table(f) == f @@ <<>>

RECURSIVE SelectIdx(_, _, _)
SelectIdx(s, I, i) ==
    IF i > Len(s) THEN <<>>
    ELSE (IF i \in I THEN <<s[i]>> ELSE <<>>) \o SelectIdx(s, I, i + 1)

RECURSIVE Concat(_)
Concat(ss) == IF ss = <<>> THEN <<>> ELSE Head(ss) \o Concat(Tail(ss))

(***************************************************************************)
(* Database contents joined by the query.  The reference tables are fixed; *)
(* the rows of CCTTestResults vary (tr_rows).                              *)
(***************************************************************************)
ContestIds == {178}
AllUserIds == {1, 2, 3, 4}
QuestionIds == {10, 30, 50}

\* Users: users 1 and 3 share one LoginId and differ in identity values;
\* user 4 has no LoginId.
Users ==
    [u \in AllUserIds |->
        CASE u = 1 -> [LoginId |-> Str("S1"), FirstName |-> Str("Ann"),
                       LastName |-> Str("Lee"), Gender |-> Str("F"),
                       Grade |-> Num(5), SchoolId |-> 2]
          [] u = 2 -> [LoginId |-> Str("S2"), FirstName |-> Str("Bob"),
                       LastName |-> Str("Ray"), Gender |-> NULL,
                       Grade |-> NULL, SchoolId |-> 1]
          [] u = 3 -> [LoginId |-> Str("S1"), FirstName |-> Str("Cy"),
                       LastName |-> Str("Kim"), Gender |-> Str("M"),
                       Grade |-> Num(6), SchoolId |-> 1]
          [] u = 4 -> [LoginId |-> NULL, FirstName |-> Str("Dee"),
                       LastName |-> Str("Fox"), Gender |-> Str("F"),
                       Grade |-> Num(5), SchoolId |-> 2]]

\* The users whose required identity fields are all present
\* (models.StudentInfo: login_id, first_name, last_name are required).
UserIds ==
    {u \in AllUserIds : /\ Users[u].LoginId # NULL
                        /\ Users[u].FirstName # NULL
                        /\ Users[u].LastName # NULL}

School ==
    [s \in {1, 2} |->
        CASE s = 1 -> [SchoolName |-> Str("Alpha School"), RegionID |-> 3]
          [] s = 2 -> [SchoolName |-> Str("Beta School"), RegionID |-> 4]]

\* Region: no row for RegionID 4.
Region == [r \in {3} |-> [RegionName |-> Str("North")]]

\* ContestCreation.ExamStartDateTime of the requested contest.
ExamStartDateTime == Ts("2024-01-05", "09:00:00")

\* CCTTestStudents: user 2 has no attendance row.
CCTTestStudents ==
    [u \in {1, 3} |->
        CASE u = 1 -> [TestStartDateTime |-> Ts("2024-01-05", "10:30:00")]
          [] u = 3 -> [TestStartDateTime |-> Ts("2024-01-05", "11:45:10")]]

\* QBankMaster: no row for question 50; question 30 has no subject or level.
QBankMaster ==
    [q \in {10, 30} |->
        CASE q = 10 -> [QuestionType |-> Str("MCQ"), SubjectId |-> 7,
                        Level |-> 3286, Answer |-> Str("<p>4</p>")]
          [] q = 30 -> [QuestionType |-> NULL, SubjectId |-> 0,
                        Level |-> 0, Answer |-> Str("B")]]

Subject == [s \in {7} |-> [SubjectName |-> Str("Math")]]

Lov == [l \in {3286} |-> [LovName |-> Str("Easy")]]

\* (UserAnswer, Credits) pairs a CCTTestResults row carries.
Responses ==
    {[UserAnswer |-> NULL, Credits |-> NULL],
     [UserAnswer |-> Str(""), Credits |-> Num(1)],
     [UserAnswer |-> Str("A"), Credits |-> Num(2)]}

TestResultRows ==
    {[UserID |-> u, QuestionID |-> Num(q),
      UserAnswer |-> a.UserAnswer, Credits |-> a.Credits] :
        u \in UserIds, q \in QuestionIds, a \in Responses}

(***************************************************************************)
(* The SELECT list of get_student_responses.                               *)
(***************************************************************************)
COALESCE(a, b) == IF a # NULL THEN a ELSE b

\* REPLACE(REPLACE(x, '<p>', ''), '</p>', '') on the answers of QBankMaster.
StripP(x) ==
    CASE x = Str("<p>4</p>") -> Str("4")
      [] OTHER -> x

\* A LEFT JOIN yields NULL columns where the joined table has no row.
LeftJoin(table, key, col) ==
    IF key \in DOMAIN table THEN table[key][col] ELSE NULL

\* the CASE with only the IS NULL test
StudentAnswerCase_null_only(UserAnswer) ==
    IF UserAnswer = NULL THEN Str("Not Answered") ELSE UserAnswer

\* CASE WHEN tr.UserAnswer IS NULL OR tr.UserAnswer = '' THEN 'Not Answered'
\*      ELSE tr.UserAnswer END
StudentAnswerCase(UserAnswer) ==
    IF UserAnswer = NULL \/ UserAnswer = Str("")
    THEN Str("Not Answered")
    ELSE UserAnswer

SelectRow(tr) ==
    LET u    == Users[tr.UserID]
        s    == School[u.SchoolId]
        q    == tr.QuestionID[2]
        subj == IF q \in DOMAIN QBankMaster
                THEN LeftJoin(Subject, QBankMaster[q].SubjectId, "SubjectName")
                ELSE NULL
        lvl  == IF q \in DOMAIN QBankMaster
                THEN LeftJoin(Lov, QBankMaster[q].Level, "LovName")
                ELSE NULL
    IN  [TestDate      |-> COALESCE(LeftJoin(CCTTestStudents, tr.UserID,
                                             "TestStartDateTime"),
                                    ExamStartDateTime),
         SchoolId      |-> Num(u.SchoolId),
         SchoolName    |-> s.SchoolName,
         StudentId     |-> u.LoginId,
         FirstName     |-> u.FirstName,
         LastName      |-> u.LastName,
         Gender        |-> u.Gender,
         Grade         |-> u.Grade,
         Region        |-> COALESCE(LeftJoin(Region, s.RegionID, "RegionName"),
                                    Str("N/A")),
         QuestionID    |-> tr.QuestionID,
         QuestionType  |-> COALESCE(LeftJoin(QBankMaster, q, "QuestionType"),
                                    Str("N/A")),
         Subject       |-> COALESCE(subj, Str("N/A")),
         Level         |-> COALESCE(lvl, Str("N/A")),
         StudentAnswer |-> StudentAnswerCase(tr.UserAnswer),
         CorrectAnswer |-> StripP(COALESCE(LeftJoin(QBankMaster, q, "Answer"),
                                           Str("N/A"))),
         Score         |-> COALESCE(tr.Credits, Num(0))]

\* Collation order of the strings the ORDER BY clause compares.
Collation == <<"Alpha School", "Ann", "Beta School", "Bob", "Cy", "Kim", "Lee", "Ray">>
StrRank(v) == CHOOSE i \in 1..Len(Collation) : Collation[i] = v[2]

\* ORDER BY s.SchoolName, u.LastName, u.FirstName, tr.QuestionID
OrderKey(tr) ==
    LET r == SelectRow(tr)
    IN  <<StrRank(r.SchoolName), StrRank(r.LastName), StrRank(r.FirstName),
          r.QuestionID[2]>>

RECURSIVE LexLeq(_, _)
LexLeq(a, b) ==
    IF a = <<>> THEN TRUE
    ELSE IF Head(a) # Head(b) THEN Head(a) < Head(b)
    ELSE LexLeq(Tail(a), Tail(b))

OrderKeys == Table([tr \in TestResultRows |-> OrderKey(tr)])

\* The result sets of at most n rows that respect the ORDER BY clause.
RECURSIVE OrderedResults(_)
OrderedResults(n) ==
    IF n = 0 THEN {<<>>}
    ELSE LET shorter == OrderedResults(n - 1)
         IN  shorter \cup
             {Append(rows, tr) : <<rows, tr>> \in
                 {x \in shorter \X TestResultRows :
                     \/ Len(x[1]) = 0
                     \/ /\ Len(x[1]) = n - 1
                        /\ LexLeq(OrderKeys[x[1][n - 1]], OrderKeys[x[2]])}}

\* settings.MAX_ROWS: 0 means no TOP clause.
MAX_ROWS == 0

Top(rows) ==
    IF MAX_ROWS > 0 /\ Len(rows) > MAX_ROWS THEN SubSeq(rows, 1, MAX_ROWS) ELSE rows

\* The frame of the query: its sixteen columns and one row per result row.
QUERY_COLUMNS ==
    <<"TestDate", "SchoolId", "SchoolName", "StudentId", "FirstName",
      "LastName", "Gender", "Grade", "Region", "QuestionID", "QuestionType",
      "Subject", "Level", "StudentAnswer", "CorrectAnswer", "Score">>

get_student_responses(rows) ==
    [columns |-> QUERY_COLUMNS,
     rows    |-> Table([i \in 1..Len(Top(rows)) |-> SelectRow(Top(rows)[i])])]

(***************************************************************************)
(* pandas operations used by pivot_student_data.  A frame is a record      *)
(* [columns, rows]: the column labels in order and one function from       *)
(* label to cell per row.  A label of the wide table is <<k, name>>:       *)
(* <<0, name>> is the column "name" and <<k, name>> is "Q{k}_{name}".      *)
(***************************************************************************)
EmptyFrame == [columns |-> <<>>, rows |-> <<>>]

\* DataFrame.empty: no rows or no columns
empty(df) == Len(df.columns) = 0 \/ Len(df.rows) = 0

\* drop_duplicates() without subset: only rows equal in every column collapse
drop_duplicates_all_columns(rows, col) ==
    SelectIdx(rows,
              {i \in 1..Len(rows) : \A j \in 1..(i - 1) : rows[j] # rows[i]},
              1)

\* drop_duplicates(subset=[col], keep='last'): the last row of each key stays
drop_duplicates_keep_last(rows, col) ==
    SelectIdx(rows,
              {i \in 1..Len(rows) :
                  \A j \in (i + 1)..Len(rows) : rows[j][col] # rows[i][col]},
              1)

\* DataFrame.drop_duplicates(subset=[col]): the first row of each key stays
drop_duplicates(rows, col) ==
    SelectIdx(rows,
              {i \in 1..Len(rows) : \A j \in 1..(i - 1) : rows[j][col] # rows[i][col]},
              1)

\* pd.to_datetime(...).dt.strftime('%Y-%m-%d'): the date part, NaN for NaT
strftime_ymd(v) == IF v = NaN THEN NaN ELSE Str(v[2][1])

\* Series.unique(): the distinct values in order of appearance
unique(s) ==
    SelectIdx(s, {i \in 1..Len(s) : \A j \in 1..(i - 1) : s[j] # s[i]}, 1)

\* sorted(): ascending by numeric value
RECURSIVE sorted(_)
sorted(s) ==
    IF s = <<>> THEN <<>>
    ELSE LET i == CHOOSE i \in 1..Len(s) : \A j \in 1..Len(s) : s[i][2] <= s[j][2]
         IN  <<s[i]>> \o sorted(SelectIdx(s, (1..Len(s)) \ {i}, 1))

\* groupby(...).last(): the last non-null cell of a column in a group
last(rows, col) ==
    IF \E i \in 1..Len(rows) : rows[i][col] # NaN
    THEN rows[CHOOSE i \in 1..Len(rows) :
                  /\ rows[i][col] # NaN
                  /\ \A j \in (i + 1)..Len(rows) : rows[j][col] = NaN][col]
    ELSE NaN

\* groupby(...).first(): the first non-null cell of a column in a group
first(rows, col) ==
    IF \E i \in 1..Len(rows) : rows[i][col] # NaN
    THEN rows[CHOOSE i \in 1..Len(rows) :
                  /\ rows[i][col] # NaN
                  /\ \A j \in 1..(i - 1) : rows[j][col] = NaN][col]
    ELSE NaN

\* DataFrame.pivot_table(index=index, columns=columns, values=values,
\* aggfunc='first'): groups with a null key are dropped, groups whose
\* aggregates are all null are dropped, the columns level is unstacked and
\* all-null columns are dropped.  The result maps each index value to its
\* row over the (value, column) labels.
pivot_table(rows, index, columns, values) ==
    LET keys    == {<<rows[i][index], rows[i][columns]>> : i \in
                       {j \in 1..Len(rows) : /\ rows[j][index] # NaN
                                             /\ rows[j][columns] # NaN}}
        group(k) == SelectIdx(rows,
                        {i \in 1..Len(rows) : /\ rows[i][index] = k[1]
                                              /\ rows[i][columns] = k[2]}, 1)
        agged   == Table([k \in keys |->
                       Table([v \in Range(values) |-> first(group(k), v)])])
        kept    == {k \in keys : \E v \in Range(values) : agged[k][v] # NaN}
        cell(s, c) == IF <<s, c[2]>> \in kept THEN agged[<<s, c[2]>>][c[1]] ELSE NaN
        idx     == {k[1] : k \in kept}
        labels  == {c \in Range(values) \X {k[2] : k \in kept} :
                       \E s \in idx : cell(s, c) # NaN}
    IN  [index   |-> idx,
         columns |-> labels,
         data    |-> Table([s \in idx |-> Table([c \in labels |-> cell(s, c)])])]

\* Series.fillna(value)
fillna(v, value) == IF v = NaN THEN value ELSE v

(***************************************************************************)
(* ExcelService.                                                           *)
(***************************************************************************)
STUDENT_COLUMNS ==
    <<"TestDate", "SchoolId", "SchoolName", "StudentId", "FirstName",
      "LastName", "Gender", "Grade", "Region">>

QUESTION_COLUMNS ==
    <<"QuestionId", "Subject", "Level", "Type", "StudentAnswer",
      "CorrectAnswer", "Score">>

\* excel_service = ExcelService(): the attributes pivot_student_data reads
ExcelService ==
    [STUDENT_COLUMNS |-> STUDENT_COLUMNS, QUESTION_COLUMNS |-> QUESTION_COLUMNS]

student_cols ==
    <<"StudentId", "FirstName", "LastName", "Gender", "Grade", "SchoolId",
      "SchoolName", "Region", "TestDate">>

pivot_cols ==
    [QuestionID |-> "QuestionId", Subject |-> "Subject", Level |-> "Level",
     QuestionType |-> "Type", StudentAnswer |-> "StudentAnswer",
     CorrectAnswer |-> "CorrectAnswer", Score |-> "Score"]

pivot_values ==
    <<"QuestionID", "Subject", "Level", "QuestionType", "StudentAnswer",
      "CorrectAnswer", "Score">>

\* students_df: df[student_cols].drop_duplicates(subset=['StudentId']) with
\* TestDate formatted as YYYY-MM-DD
students_df(df) ==
    LET base == drop_duplicates(df.rows, "StudentId")
    IN  Table([i \in 1..Len(base) |->
            Table([c \in Range(student_cols) |->
                IF c = "TestDate" THEN strftime_ymd(base[i][c]) ELSE base[i][c]])])

\* df['QuestionID'].unique() without sorted(): ids in order of appearance
all_question_ids_unsorted(df) ==
    unique([i \in 1..Len(df.rows) |-> df.rows[i].QuestionID])

\* all_question_ids = sorted(df['QuestionID'].unique())
all_question_ids(df) ==
    sorted(unique([i \in 1..Len(df.rows) |-> df.rows[i].QuestionID]))

\* q_id_to_num = {q_id: idx for idx, q_id in enumerate(all_question_ids, 1)}
q_id_to_num(df) ==
    LET ids == all_question_ids(df)
    IN  Table([q \in Range(ids) |-> CHOOSE idx \in 1..Len(ids) : ids[idx] = q])

\* df['QNum'] = df['QuestionID'].map(m): the rows of df with the column QNum
map_QNum(df, m) ==
    Table([i \in 1..Len(df.rows) |->
        Table([c \in Range(df.columns) \cup {"QNum"} |->
            IF c = "QNum"
            THEN (IF df.rows[i].QuestionID \in DOMAIN m
                  THEN Num(m[df.rows[i].QuestionID]) ELSE NaN)
            ELSE df.rows[i][c]])])

\* df['QNum'] = df['QuestionID'].map(q_id_to_num), on a copy of df
with_QNum(df) == map_QNum(df, q_id_to_num(df))

\* pivot_table over rows that carry QNum, with the flattened labels:
\* ('StudentAnswer', 1) -> Q1_StudentAnswer
pivot_flat(rows) ==
    LET p == pivot_table(rows, "StudentId", "QNum", pivot_values)
        label(c) == <<c[2][2], pivot_cols[c[1]]>>
    IN  [index   |-> p.index,
         columns |-> {label(c) : c \in p.columns},
         data    |-> Table([s \in p.index |->
                        Table([l \in {label(c) : c \in p.columns} |->
                            p.data[s][CHOOSE c \in p.columns : label(c) = l]])])]

pivoted(df) == pivot_flat(with_QNum(df))

\* left.merge(right, on='StudentId', how='left')
merge(left, right) ==
    LET cols  == {<<0, c>> : c \in Range(student_cols)} \cup right.columns
    IN  [columns |-> cols,
         rows    |-> Table([i \in 1..Len(left) |->
                        Table([c \in cols |->
                            IF c[1] = 0 THEN left[i][c[2]]
                            ELSE IF left[i].StudentId \in right.index
                                 THEN right.data[left[i].StudentId][c]
                                 ELSE NaN])])]

\* result_df = students_df.merge(pivoted, on='StudentId', how='left')
result_df(df) == merge(students_df(df), pivoted(df))

\* the loops nested the other way: for each field, every slot
question_labels_by_field(n) ==
    Concat([j \in 1..Len(QUESTION_COLUMNS) |->
               [idx \in 1..n |-> <<idx, QUESTION_COLUMNS[j]>>]])

\* for idx in range(1, n + 1): for col in QUESTION_COLUMNS: f"Q{idx}_{col}"
question_labels(n) ==
    Concat([idx \in 1..n |->
               [j \in 1..Len(QUESTION_COLUMNS) |-> <<idx, QUESTION_COLUMNS[j]>>]])

\* final_columns: the student columns, then Q1_*, Q2_*, ... in
\* QUESTION_COLUMNS order, keeping the labels that exist in result_df
select_columns(have, n) ==
    LET keep(s) == SelectIdx(s, {i \in 1..Len(s) : s[i] \in have}, 1)
    IN  keep([j \in 1..Len(STUDENT_COLUMNS) |-> <<0, STUDENT_COLUMNS[j]>>]
             \o keep(question_labels(n)))

final_columns(df) == select_columns(result_df(df).columns, Len(all_question_ids(df)))

\* the fills without the '_Score' branch
fill_blank_no_score(c, v) ==
    IF c[1] = 0 THEN v
    ELSE IF c[2] = "StudentAnswer" THEN fillna(v, Str("Not Answered"))
    ELSE IF c[2] \in {"QuestionId", "Subject", "Level", "Type", "CorrectAnswer"}
         THEN fillna(v, Str("N/A"))
    ELSE v

\* the fill value of a column, by the suffix of its label
fill_blank(c, v) ==
    IF c[1] = 0 THEN v
    ELSE IF c[2] = "StudentAnswer" THEN fillna(v, Str("Not Answered"))
    ELSE IF c[2] = "Score" THEN fillna(v, Num(0))
    ELSE IF c[2] \in {"QuestionId", "Subject", "Level", "Type", "CorrectAnswer"}
         THEN fillna(v, Str("N/A"))
    ELSE v

\* Labels pivot_student_data looks up in df; a missing one raises KeyError.
required_labels == Range(student_cols) \cup {"QuestionID"} \cup Range(pivot_values)

raises_KeyError(df) == ~empty(df) /\ ~(required_labels \subseteq Range(df.columns))

\* result_df[final_columns] with the blanks of the question columns filled
filled(r, cols) ==
    [columns |-> cols,
     rows    |-> Table([i \in 1..Len(r.rows) |->
                    Table([c \in Range(cols) |-> fill_blank(c, r.rows[i][c])])])]

pivot_student_data(df) ==
    IF empty(df) THEN EmptyFrame
    ELSE filled(result_df(df), final_columns(df))

\* datetime.now().strftime('%Y-%m-%d %H:%M:%S')
now == Str("2024-01-06 12:00:00")

\* to_excel writing from the top of the sheet whatever startrow is
to_excel_from_top(df, startrow) ==
    LET ncols == Len(df.columns)
        coords == (1..(1 + Len(df.rows))) \X (1..ncols)
    IN  Table([p \in coords |->
            IF p[1] = 1 THEN <<"label", df.columns[p[2]]>>
            ELSE IF df.rows[p[1] - 1][df.columns[p[2]]] = NaN THEN Str("")
            ELSE df.rows[p[1] - 1][df.columns[p[2]]]])

\* DataFrame.to_excel(writer, sheet_name, index=False, startrow=startrow):
\* the header in sheet row startrow + 1, the k-th frame row in sheet row
\* startrow + 1 + k; a null cell is written as the empty string (na_rep).
\* A column label is written as its text: <<k, name>> stands for it.
to_excel(df, startrow) ==
    LET ncols == Len(df.columns)
        coords == ((startrow + 1)..(startrow + 1 + Len(df.rows))) \X (1..ncols)
    IN  Table([p \in coords |->
            IF p[1] = startrow + 1 THEN <<"label", df.columns[p[2]]>>
            ELSE fillna(df.rows[p[1] - startrow - 1][df.columns[p[2]]], Str(""))])

\* ws[...] = value for each coordinate of `writes`, over the cells already there
assign(cells, writes) == writes @@ cells

\* the column width set for a column label
column_width(c) ==
    IF c = <<0, "TestDate">> THEN 12
    ELSE IF c = <<0, "SchoolName">> THEN 25
    ELSE IF c[1] = 0 /\ c[2] \in Range(STUDENT_COLUMNS) THEN 12
    ELSE 10

\* the count taken over all the columns, the student columns included
question_count_all_columns(df) == Len(df.columns) \div 7

\* (len(df.columns) - len(self.STUDENT_COLUMNS)) // 7
question_count(df) == (Len(df.columns) - Len(STUDENT_COLUMNS)) \div 7

\* the number of distinct non-null SchoolId cells, 0 without the column
nunique_schools(df) ==
    IF <<0, "SchoolId">> \in Range(df.columns)
    THEN Cardinality({df.rows[i][<<0, "SchoolId">>] : i \in 1..Len(df.rows)} \ {NaN})
    ELSE 0

summary_df(df, cid) ==
    [columns |-> <<"Metric", "Value">>,
     rows |-> <<[Metric |-> Str("Contest ID"), Value |-> Num(cid)],
                [Metric |-> Str("Total Students"), Value |-> Num(Len(df.rows))],
                [Metric |-> Str("Total Schools"), Value |-> Num(nunique_schools(df))],
                [Metric |-> Str("Total Questions"), Value |-> Num(question_count(df))],
                [Metric |-> Str("Generated At"), Value |-> now]>>]

\* A workbook is its sheets in order; a sheet is its title, its cells by
\* <<row, column>>, the styled header cells, the freeze-pane anchor and the
\* column widths.
\* the empty case without the notice line
no_data_workbook_title_only(cid) ==
    [sheets |->
        <<[title |-> "Sheet",
           cells |-> assign(<<>>, (<<1, 1>> :> FStr(<<"Contest ID: ", cid>>))),
           header_style |-> {},
           freeze_panes |-> NULL,
           width |-> <<>>]>>]

\* the workbook of the empty case: Workbook() with its active sheet
no_data_workbook(cid) ==
    [sheets |->
        <<[title |-> "Sheet",
           cells |-> assign(<<>>,
                        (<<1, 1>> :> FStr(<<"Contest ID: ", cid>>)) @@
                        (<<2, 1>> :> Str("No data found for the specified filters."))),
           header_style |-> {},
           freeze_panes |-> NULL,
           width |-> <<>>]>>]

\* an anchor that pins the rows above the data but no column
freeze_panes_rows_only == <<5, 1>>

\* ws.freeze_panes = ws.cell(row=5, column=len(self.STUDENT_COLUMNS) + 1)
freeze_panes_anchor == <<5, Len(STUDENT_COLUMNS) + 1>>

generate_excel(df, cid) ==
    IF empty(df)
    THEN no_data_workbook(cid)
    ELSE [sheets |->
            <<[title |-> "Student Responses",
               cells |-> assign(to_excel(df, 3),
                            (<<1, 1>> :> FStr(<<"Contest ID: ", cid>>)) @@
                            (<<2, 1>> :> FStr(<<"Generated: ", now>>)) @@
                            (<<3, 1>> :> FStr(<<"Students: ", Len(df.rows),
                                                " | Questions: ", question_count(df)>>))),
               header_style |-> {<<4, col_idx>> : col_idx \in 1..Len(df.columns)},
               freeze_panes |-> freeze_panes_anchor,
               width |-> Table([i \in 1..Len(df.columns) |->
                                   column_width(df.columns[i])])],
              [title |-> "Summary",
               cells |-> to_excel(summary_df(df, cid), 0),
               header_style |-> {},
               freeze_panes |-> NULL,
               width |-> <<>>]>>]

(***************************************************************************)
(* Frames handed to pivot_student_data directly, in any row order: the     *)
(* records the query yields for users 1, 2 and 4 (the last without a       *)
(* StudentId), with or without the StudentId column.                       *)
(***************************************************************************)
PivotRecords ==
    {SelectRow([UserID |-> u, QuestionID |-> Num(q),
                UserAnswer |-> Str("A"), Credits |-> Num(2)]) :
        u \in {1, 2, 4}, q \in QuestionIds}

PivotColumns ==
    {QUERY_COLUMNS,
     SelectIdx(QUERY_COLUMNS,
               {i \in 1..Len(QUERY_COLUMNS) : QUERY_COLUMNS[i] # "StudentId"}, 1)}

\* What pivot_table returns when every StudentId of a non-empty frame is
\* null is decided inside pandas, so such frames are left out.
PivotRows ==
    {rs \in UNION {[1..n -> PivotRecords] : n \in 0..MaxPivotRows} :
        Len(rs) = 0 \/ \E i \in 1..Len(rs) : rs[i].StudentId # NULL}

PivotInputs ==
    {[columns |-> cols,
      rows    |-> Table([i \in 1..Len(rs) |-> Table([c \in Range(cols) |-> rs[i][c]])])] :
        cols \in PivotColumns, rs \in PivotRows}

(***************************************************************************)
(* Exceptions and responses of the routes.                                 *)
(***************************************************************************)
HTTPException(status_code, detail) ==
    [type |-> "HTTPException", status_code |-> status_code, detail |-> detail]

DatabaseError(msg) == [type |-> "DatabaseError", msg |-> msg]

KeyError(msg) == [type |-> "KeyError", msg |-> msg]

\* an exception raised inside openpyxl or pandas while the workbook is written
WriteError(msg) == [type |-> "Exception", msg |-> msg]

\* a call that raised nothing
NoException == [type |-> "none", msg |-> NULL]

\* str(e): an HTTPException prints as "{status_code}: {detail}"
str(e) ==
    IF e.type = "HTTPException" THEN FStr(<<e.status_code, ": ", e.detail>>)
    ELSE e.msg

\* HTTPException(status_code=404, detail=f"Contest with ID {contest_id} not found")
ContestNotFound(cid) ==
    HTTPException(404, FStr(<<"Contest with ID ", cid, " not found">>))

\* the answer to a request whose handler raised HTTPException
ErrorResponse(e) == [status |-> e.status_code, detail |-> e.detail, body |-> NONE]

\* the answer to a request whose handler returned `body`
OkResponse(body) == [status |-> 200, detail |-> NULL, body |-> body]

\* the except clauses of get_test_dates and of get_contest_info: a
\* DatabaseError becomes HTTP 500, anything else leaves the handler as it is
except_DatabaseError(e) ==
    IF e.type = "DatabaseError"
    THEN HTTPException(500, FStr(<<"Database error: ", str(e)>>))
    ELSE e

\* the except clauses of get_student_responses_report: a DatabaseError
\* becomes HTTP 500, and so does every other exception raised in the try
\* block, the HTTPException of a missing contest included
except_Exception(e) ==
    IF e.type = "DatabaseError"
    THEN HTTPException(500, FStr(<<"Database error: ", str(e)>>))
    ELSE HTTPException(500, FStr(<<"Error generating report: ", str(e)>>))

\* what leaves the handler of endpoint `ep` when its try block raises e
handler_except(ep, e) ==
    IF ep = "student-responses" THEN except_Exception(e) ELSE except_DatabaseError(e)

(***************************************************************************)
(* DatabaseConnection: get_connection and get_cursor around the body of a  *)
(* query-service method.  A connection or cursor is "open" or "closed";    *)
(* log lists the opens and closes in the order they happen.                *)
(***************************************************************************)
PyodbcError(msg) == [type |-> "pyodbc.Error", msg |-> msg]

\* an exception of the body that is not a pyodbc.Error
BodyError(msg) == [type |-> "Exception", msg |-> msg]

QueryMethods ==
    {"get_student_responses", "get_contest_info", "get_question_count",
     "validate_contest_exists", "get_available_test_dates"}

\* get_student_responses reads through get_connection, the others through
\* get_cursor
uses_cursor(method) == method # "get_student_responses"

\* the text each method puts before str(e) in its DatabaseError
error_prefix(method) ==
    CASE method = "get_student_responses"    -> "Error fetching student responses: "
      [] method = "get_contest_info"         -> "Error fetching contest info: "
      [] method = "get_question_count"       -> "Error fetching question count: "
      [] method = "validate_contest_exists"  -> "Error validating contest: "
      [] method = "get_available_test_dates" -> "Error fetching test dates: "

NoCalls ==
    [pc |-> "idle", method |-> "", conn |-> 0, cursor |-> 0, exc |-> NoException,
     conns |-> <<>>, cursors |-> <<>>, log |-> <<>>, ncalls |-> 0, last |-> ""]

\* a close that is skipped when the body raised
closes_on_success_only(exc) == exc = NoException

\* finally: the close runs whether or not an exception is on its way out
closes_on(exc) == TRUE

HandlerVars == <<endpoint, contest_id, tr_rows, calls, raw_df, pivoted_df, buffer,
                 excel_buffer, response, pc, service, gens>>

\* a method of query_service is called: conn = None
DbCall ==
    /\ db.pc = "idle"
    /\ db.ncalls < MaxCalls
    /\ \E m \in QueryMethods :
        db' = [db EXCEPT !.pc = "connect", !.method = m, !.conn = 0, !.cursor = 0,
                         !.exc = NoException, !.ncalls = @ + 1, !.last = ""]
    /\ UNCHANGED HandlerVars

\* conn = pyodbc.connect(...)
DbConnect ==
    /\ db.pc = "connect"
    /\ \E ok \in BOOLEAN :
        db' = IF ok
              THEN [db EXCEPT !.pc = "set_isolation",
                              !.conns = Append(@, "open"),
                              !.conn = Len(db.conns) + 1,
                              !.log = Append(@, <<"connect", Len(db.conns) + 1>>)]
              ELSE [db EXCEPT !.pc = "connection_exit",
                              !.exc = PyodbcError(Str("connect"))]
    /\ UNCHANGED HandlerVars

\* conn.execute("SET TRANSACTION ISOLATION LEVEL READ UNCOMMITTED"); yield conn
DbSetIsolation ==
    /\ db.pc = "set_isolation"
    /\ \E ok \in BOOLEAN :
        db' = IF ok
              THEN [db EXCEPT !.pc = IF uses_cursor(db.method) THEN "cursor" ELSE "body"]
              ELSE [db EXCEPT !.pc = "connection_exit",
                              !.exc = PyodbcError(Str("execute"))]
    /\ UNCHANGED HandlerVars

\* cursor = conn.cursor(); yield cursor
DbCursor ==
    /\ db.pc = "cursor"
    /\ \E ok \in BOOLEAN :
        db' = IF ok
              THEN [db EXCEPT !.pc = "body",
                              !.cursors = Append(@, [conn |-> db.conn, state |-> "open"]),
                              !.cursor = Len(db.cursors) + 1,
                              !.log = Append(@, <<"cursor", db.conn>>)]
              ELSE [db EXCEPT !.pc = "connection_exit",
                              !.exc = PyodbcError(Str("cursor"))]
    /\ UNCHANGED HandlerVars

\* the body of the with block: it returns, or raises a pyodbc.Error or some
\* other exception
DbBody ==
    /\ db.pc = "body"
    /\ \E e \in {NoException, PyodbcError(Str("execute")), BodyError(Str("body"))} :
        db' = [db EXCEPT !.pc = IF db.cursor # 0 THEN "cursor_exit" ELSE "connection_exit",
                         !.exc = e]
    /\ UNCHANGED HandlerVars

\* get_cursor: finally: cursor.close()
DbCursorExit ==
    /\ db.pc = "cursor_exit"
    /\ db' = [db EXCEPT !.pc = "connection_exit",
                        !.cursors[db.cursor].state = "closed",
                        !.log = Append(@, <<"cursor.close", db.conn>>)]
    /\ UNCHANGED HandlerVars

\* get_connection: except pyodbc.Error as e: raise DatabaseError(...);
\* finally: if conn: conn.close()
DbConnectionExit ==
    /\ db.pc = "connection_exit"
    /\ LET exc == IF db.exc.type = "pyodbc.Error"
                  THEN DatabaseError(FStr(<<"Database connection error: ", str(db.exc)>>))
                  ELSE db.exc
       IN  db' = IF db.conn # 0 /\ closes_on(exc)
                 THEN [db EXCEPT !.pc = "method_exit", !.exc = exc,
                                 !.conns[db.conn] = "closed",
                                 !.log = Append(@, <<"close", db.conn>>)]
                 ELSE [db EXCEPT !.pc = "method_exit", !.exc = exc]
    /\ UNCHANGED HandlerVars

\* the method returns, or: except Exception as e: raise DatabaseError(...)
DbMethodExit ==
    /\ db.pc = "method_exit"
    /\ db' = IF db.exc = NoException
             THEN [db EXCEPT !.pc = "idle", !.last = "returned"]
             ELSE [db EXCEPT !.pc = "idle", !.last = "raised",
                             !.exc = DatabaseError(FStr(<<error_prefix(db.method),
                                                          str(db.exc)>>))]
    /\ UNCHANGED HandlerVars

InitDb ==
    /\ endpoint = "student-responses"
    /\ contest_id \in ContestIds
    /\ tr_rows = <<>>
    /\ calls = <<>>
    /\ raw_df = NONE
    /\ pivoted_df = NONE
    /\ buffer = NONE
    /\ excel_buffer = NONE
    /\ response = NONE
    /\ pc = "start"
    /\ service = ExcelService
    /\ db = NoCalls
    /\ gens = <<>>

NextDb ==
    \/ DbCall
    \/ DbConnect
    \/ DbSetIsolation
    \/ DbCursor
    \/ DbBody
    \/ DbCursorExit
    \/ DbConnectionExit
    \/ DbMethodExit

SpecDb == InitDb /\ [][NextDb]_vars

(***************************************************************************)
(* The other queries of QueryService.                                      *)
(***************************************************************************)
\* ContestCreation: the contests of the database
ContestCreation ==
    [c \in ContestIds |->
        [ContestCreationID |-> Num(c),
         ExamStartDateTime |-> ExamStartDateTime,
         ExamEndDateTime   |-> Ts("2024-01-05", "17:00:00")]]

\* the contest ids a request may carry: the contests and one that is not
RequestContestIds == ContestIds \cup {999}

\* SELECT TOP 1 1 FROM ContestCreation WHERE ContestCreationID = ?
validate_contest_exists(cid) == cid \in DOMAIN ContestCreation

\* the row of the contest as a dict, {} without one
get_contest_info(cid) ==
    IF cid \in DOMAIN ContestCreation THEN ContestCreation[cid]
    ELSE [x \in {} |-> NULL]

\* SELECT COUNT(DISTINCT tr.QuestionID)
get_question_count(rows) == Cardinality({rows[i].QuestionID : i \in 1..Len(rows)})

\* SELECT DISTINCT CAST(COALESCE(ts.TestStartDateTime, cc.ExamStartDateTime)
\* AS DATE) ... ORDER BY TestDate DESC, each date as YYYY-MM-DD.  The rows of
\* the model all fall on one date, so the list has at most one entry.
get_available_test_dates(rows) ==
    LET dates == {strftime_ymd(SelectRow(rows[i]).TestDate) : i \in 1..Len(rows)}
    IN  IF dates = {} THEN <<>> ELSE <<CHOOSE d \in dates : TRUE>>

(***************************************************************************)
(* A call of generate_excel.  `fault` is the statement that raises, if     *)
(* any: the to_excel of the primary sheet (or wb.save in the no-data       *)
(* case), or the to_excel of the summary sheet.  The ExcelWriter saves     *)
(* the sheets written so far into the buffer when its block is left, so    *)
(* the buffer of a failed call holds a partial workbook; the call returns  *)
(* the buffer only when it reaches its return statement.                   *)
(***************************************************************************)
Faults == {"none", "to_excel", "summary"}

\* the buffer as the call leaves it
written(df, cid, fault) ==
    LET wb == generate_excel(df, cid)
    IN  IF fault = "none" THEN wb
        ELSE IF empty(df) \/ fault = "to_excel" THEN [sheets |-> <<>>]
        ELSE [sheets |-> SubSeq(wb.sheets, 1, 1)]

\* a call that hands its buffer back whether or not a statement raised
generate_excel_call_swallowing(df, cid, fault) ==
    [buffer   |-> written(df, cid, fault),
     raised   |-> NoException,
     returned |-> written(df, cid, fault)]

generate_excel_call(df, cid, fault) ==
    [buffer   |-> written(df, cid, fault),
     raised   |-> IF fault = "none" THEN NoException ELSE WriteError(Str(fault)),
     returned |-> IF fault = "none" THEN written(df, cid, fault) ELSE NONE]

(***************************************************************************)
(* The handlers get_test_dates, get_student_responses_report and           *)
(* get_contest_info.  A query of QueryService either answers or raises     *)
(* DatabaseError (db_ok).                                                  *)
(***************************************************************************)
Endpoints == {"student-responses", "test-dates", "contest-info"}

Init ==
    /\ endpoint \in Endpoints
    /\ contest_id \in RequestContestIds
    /\ tr_rows \in IF ~validate_contest_exists(contest_id) THEN {<<>>}
                   ELSE IF endpoint = "student-responses" THEN OrderedResults(MaxRows)
                   ELSE OrderedResults(1)
    /\ calls = <<>>
    /\ raw_df = NONE
    /\ pivoted_df = NONE
    /\ buffer = NONE
    /\ excel_buffer = NONE
    /\ response = NONE
    /\ pc = "start"
    /\ service = ExcelService
    /\ db = NoCalls
    /\ gens = <<>>

\* the handler leaves its try block with the exception e that `call` raised
Raise(call, e) ==
    /\ calls' = Append(calls, <<call, e.type>>)
    /\ response' = ErrorResponse(handler_except(endpoint, e))
    /\ pc' = "failed"

\* `call` returned and the handler goes on at `next`
Return(call, next) ==
    /\ calls' = Append(calls, <<call, "returned">>)
    /\ response' = response
    /\ pc' = next

\* if not query_service.validate_contest_exists(contest_id): raise 404
ValidateContestExists ==
    /\ pc = "start"
    /\ \E db_ok \in BOOLEAN :
        IF ~db_ok
        THEN Raise("validate_contest_exists",
                   DatabaseError(FStr(<<"Error validating contest: ", "pyodbc.Error">>)))
        ELSE IF ~validate_contest_exists(contest_id)
        THEN /\ calls' = Append(calls, <<"validate_contest_exists", "returned False">>)
             /\ response' = ErrorResponse(handler_except(endpoint,
                                                         ContestNotFound(contest_id)))
             /\ pc' = "failed"
        ELSE Return("validate_contest_exists", "validated")
    /\ UNCHANGED <<service, db, gens, endpoint, contest_id, tr_rows, raw_df, pivoted_df, buffer, excel_buffer>>

\* dates = query_service.get_available_test_dates(contest_id); return {...}
GetAvailableTestDates ==
    /\ pc = "validated"
    /\ endpoint = "test-dates"
    /\ \E db_ok \in BOOLEAN :
        IF ~db_ok
        THEN Raise("get_available_test_dates",
                   DatabaseError(FStr(<<"Error fetching test dates: ", "pyodbc.Error">>)))
        ELSE /\ response' = OkResponse(
                    [contest_id  |-> contest_id,
                     test_dates  |-> get_available_test_dates(tr_rows),
                     total_dates |-> Len(get_available_test_dates(tr_rows))])
             /\ calls' = Append(calls, <<"get_available_test_dates", "returned">>)
             /\ pc' = "responded"
    /\ UNCHANGED <<service, db, gens, endpoint, contest_id, tr_rows, raw_df, pivoted_df, buffer, excel_buffer>>

\* contest_info / info = query_service.get_contest_info(contest_id)
GetContestInfo ==
    /\ pc = "validated"
    /\ endpoint \in {"student-responses", "contest-info"}
    /\ \E db_ok \in BOOLEAN :
        IF ~db_ok
        THEN Raise("get_contest_info",
                   DatabaseError(FStr(<<"Error fetching contest info: ", "pyodbc.Error">>)))
        ELSE Return("get_contest_info", "info")
    /\ UNCHANGED <<service, db, gens, endpoint, contest_id, tr_rows, raw_df, pivoted_df, buffer, excel_buffer>>

\* question_count = query_service.get_question_count(contest_id); return {...}
GetQuestionCount ==
    /\ pc = "info"
    /\ endpoint = "contest-info"
    /\ \E db_ok \in BOOLEAN :
        IF ~db_ok
        THEN Raise("get_question_count",
                   DatabaseError(FStr(<<"Error fetching question count: ", "pyodbc.Error">>)))
        ELSE /\ response' = OkResponse(
                    [contest_id     |-> contest_id,
                     contest_info   |-> get_contest_info(contest_id),
                     question_count |-> get_question_count(tr_rows)])
             /\ calls' = Append(calls, <<"get_question_count", "returned">>)
             /\ pc' = "responded"
    /\ UNCHANGED <<service, db, gens, endpoint, contest_id, tr_rows, raw_df, pivoted_df, buffer, excel_buffer>>

\* raw_df = query_service.get_student_responses(...)
GetStudentResponses ==
    /\ pc = "info"
    /\ endpoint = "student-responses"
    /\ \E db_ok \in BOOLEAN :
        IF ~db_ok
        THEN /\ Raise("get_student_responses",
                      DatabaseError(FStr(<<"Error fetching student responses: ",
                                           "pyodbc.Error">>)))
             /\ raw_df' = raw_df
        ELSE /\ raw_df' = get_student_responses(tr_rows)
             /\ Return("get_student_responses", "fetched")
    /\ UNCHANGED <<service, db, gens, endpoint, contest_id, tr_rows, pivoted_df, buffer, excel_buffer>>

\* pivoted_df = excel_service.pivot_student_data(raw_df)
PivotStudentData ==
    /\ pc = "fetched"
    /\ IF raises_KeyError(raw_df)
       THEN Raise("pivot_student_data", KeyError(Str("StudentId"))) /\ pivoted_df' = pivoted_df
       ELSE /\ pivoted_df' = pivot_student_data(raw_df)
            /\ Return("pivot_student_data", "pivoted")
    /\ UNCHANGED <<service, db, gens, endpoint, contest_id, tr_rows, raw_df, buffer, excel_buffer>>

\* excel_buffer = excel_service.generate_excel(pivoted_df, contest_id, ...)
GenerateExcel ==
    /\ pc = "pivoted"
    /\ \E fault \in Faults :
        LET call == generate_excel_call(pivoted_df, contest_id, fault)
        IN  /\ buffer' = call.buffer
            /\ excel_buffer' = call.returned
            /\ IF call.raised # NoException
               THEN Raise("generate_excel", call.raised)
               ELSE Return("generate_excel", "rendered")
    /\ UNCHANGED <<service, db, gens, endpoint, contest_id, tr_rows, raw_df, pivoted_df>>

\* return StreamingResponse(excel_buffer, ...)
StreamResponse ==
    /\ pc = "rendered"
    /\ response' = OkResponse(excel_buffer)
    /\ pc' = "responded"
    /\ UNCHANGED <<service, db, gens, endpoint, contest_id, tr_rows, calls, raw_df, pivoted_df, buffer,
                   excel_buffer>>

Next ==
    \/ ValidateContestExists
    \/ GetAvailableTestDates
    \/ GetContestInfo
    \/ GetQuestionCount
    \/ GetStudentResponses
    \/ PivotStudentData
    \/ GenerateExcel
    \/ StreamResponse

Spec == Init /\ [][Next]_vars

\* pivot_student_data and generate_excel called on a frame of PivotInputs.
InitPivot ==
    /\ endpoint = "student-responses"
    /\ contest_id \in ContestIds
    /\ tr_rows = <<>>
    /\ calls = <<>>
    /\ raw_df \in PivotInputs
    /\ pivoted_df = NONE
    /\ buffer = NONE
    /\ excel_buffer = NONE
    /\ response = NONE
    /\ pc = "fetched"
    /\ service = ExcelService
    /\ db = NoCalls
    /\ gens = <<>>

NextPivot == PivotStudentData \/ GenerateExcel

SpecPivot == InitPivot /\ [][NextPivot]_vars

(***************************************************************************)
(* Concurrent calls of excel_service.pivot_student_data, statement by      *)
(* statement.  Each call has its own locals; the frame it was given and    *)
(* its copy are objects, and the local name df is bound to one of them.    *)
(***************************************************************************)
Gens == {1, 2}

\* the frames the concurrent calls are given: query results of users 1 and 2
\* on questions 10 and 30, of at most MaxGenRows rows
GenInputs ==
    {get_student_responses(rows) : rows \in
        {r \in OrderedResults(MaxGenRows) :
            \A i \in 1..Len(r) : /\ r[i].UserID \in {1, 2}
                                 /\ r[i].QuestionID \in {Num(10), Num(30)}
                                 /\ r[i].UserAnswer = Str("A")}}

\* the object the name df is bound to after "df = df"
df_not_copied == "input"

\* the object the name df is bound to after "df = df.copy()"
df_copy == "copy"

\* a call that has just been entered with the frame f
Entered(f) ==
    [pc |-> "call", given |-> f, input |-> f, copy |-> NONE, df |-> "input",
     students_df |-> <<>>, all_question_ids |-> <<>>, q_id_to_num |-> <<>>,
     result |-> NONE]

\* the frame the local name df of call g refers to
Obj(g) == IF gens[g].df = "input" THEN gens[g].input ELSE gens[g].copy

InitConcurrent ==
    /\ endpoint = "student-responses"
    /\ contest_id \in ContestIds
    /\ tr_rows = <<>>
    /\ calls = <<>>
    /\ raw_df = NONE
    /\ pivoted_df = NONE
    /\ buffer = NONE
    /\ excel_buffer = NONE
    /\ response = NONE
    /\ pc = "start"
    /\ service = ExcelService
    /\ db = NoCalls
    /\ gens \in [Gens -> {Entered(f) : f \in GenInputs}]

Rest == <<endpoint, contest_id, tr_rows, calls, raw_df, pivoted_df, buffer,
          excel_buffer, response, pc, service, db>>

\* if df.empty: return pd.DataFrame(); students_df = df[student_cols]
\* .drop_duplicates(subset=['StudentId']).copy() with TestDate formatted
GenStudents(g) ==
    /\ gens[g].pc = "call"
    /\ gens' = [gens EXCEPT ![g] =
          IF empty(Obj(g))
          THEN [@ EXCEPT !.pc = "done", !.result = EmptyFrame]
          ELSE [@ EXCEPT !.pc = "ids", !.students_df = students_df(Obj(g))]]
    /\ UNCHANGED Rest

\* all_question_ids = sorted(...); q_id_to_num = {q_id: idx ...}
GenQuestionIds(g) ==
    /\ gens[g].pc = "ids"
    /\ gens' = [gens EXCEPT ![g] =
          [@ EXCEPT !.pc = "copy",
                    !.all_question_ids = all_question_ids(Obj(g)),
                    !.q_id_to_num = q_id_to_num(Obj(g))]]
    /\ UNCHANGED Rest

\* df = df.copy()
GenCopy(g) ==
    /\ gens[g].pc = "copy"
    /\ gens' = [gens EXCEPT ![g] =
          [@ EXCEPT !.pc = "qnum", !.copy = Obj(g), !.df = df_copy]]
    /\ UNCHANGED Rest

\* df['QNum'] = df['QuestionID'].map(q_id_to_num): a column added to the
\* object df is bound to
GenAddQNum(g) ==
    /\ gens[g].pc = "qnum"
    /\ LET with == [columns |-> Append(Obj(g).columns, "QNum"),
                    rows    |-> map_QNum(Obj(g), gens[g].q_id_to_num)]
       IN  gens' = [gens EXCEPT ![g] =
             IF gens[g].df = "copy"
             THEN [@ EXCEPT !.pc = "pivot", !.copy = with]
             ELSE [@ EXCEPT !.pc = "pivot", !.input = with]]
    /\ UNCHANGED Rest

\* pivot_table, the flattened labels, the merge, final_columns and the fills
GenPivot(g) ==
    /\ gens[g].pc = "pivot"
    /\ LET r == merge(gens[g].students_df, pivot_flat(Obj(g).rows))
           cols == select_columns(r.columns, Len(gens[g].all_question_ids))
       IN  gens' = [gens EXCEPT ![g] =
             [@ EXCEPT !.pc = "done", !.result = filled(r, cols)]]
    /\ UNCHANGED Rest

NextConcurrent ==
    \E g \in Gens :
        \/ GenStudents(g)
        \/ GenQuestionIds(g)
        \/ GenCopy(g)
        \/ GenAddQNum(g)
        \/ GenPivot(g)

SpecConcurrent == InitConcurrent /\ [][NextConcurrent]_vars

(***************************************************************************)
(* Properties of the pivot and of the workbook.                            *)
(***************************************************************************)
\* the records the pivot was given
Records == raw_df.rows
RecordIdx == 1..Len(raw_df.rows)

SamePair(i, j) ==
    /\ Records[i].StudentId = Records[j].StudentId
    /\ Records[i].QuestionID = Records[j].QuestionID

\* the first record, in record order, with the student and question of record i
FirstOfPair(i) == CHOOSE j \in 1..i : SamePair(i, j) /\ \A k \in 1..(j - 1) : ~SamePair(i, k)

\* the first record, in record order, with the student of record i
FirstOfStudent(i) ==
    CHOOSE j \in 1..i :
        /\ Records[j].StudentId = Records[i].StudentId
        /\ \A k \in 1..(j - 1) : Records[k].StudentId # Records[i].StudentId

DistinctStudentIds == {Records[i].StudentId : i \in RecordIdx}
DistinctQuestionIds == {Records[i].QuestionID : i \in RecordIdx}

\* the slot of a question id: its rank among the distinct ids, ascending
SlotOf(q) == Cardinality({p \in DistinctQuestionIds : p[2] <= q[2]})

Pivoted == pc = "pivoted"

\* the output rows of a student
OutIdx == 1..Len(pivoted_df.rows)
OutRowsOf(s) == {k \in OutIdx : pivoted_df.rows[k][<<0, "StudentId">>] = s}
OutRowOf(s) == pivoted_df.rows[CHOOSE k \in OutIdx : k \in OutRowsOf(s)]

\* a cell of an output row; a label the table lacks has no cell
Absent == <<"absent", "">>
CellOf(row, label) == IF label \in DOMAIN row THEN row[label] ELSE Absent

\* the Q{slot} block of an output row, keyed by the record field it shows
BlockOf(row, slot) ==
    [QuestionID    |-> CellOf(row, <<slot, "QuestionId">>),
     Subject       |-> CellOf(row, <<slot, "Subject">>),
     Level         |-> CellOf(row, <<slot, "Level">>),
     QuestionType  |-> CellOf(row, <<slot, "Type">>),
     StudentAnswer |-> CellOf(row, <<slot, "StudentAnswer">>),
     CorrectAnswer |-> CellOf(row, <<slot, "CorrectAnswer">>),
     Score         |-> CellOf(row, <<slot, "Score">>)]

\* the question-detail fields of a record
DetailsOf(r) ==
    [QuestionID    |-> r.QuestionID,
     Subject       |-> r.Subject,
     Level         |-> r.Level,
     QuestionType  |-> r.QuestionType,
     StudentAnswer |-> r.StudentAnswer,
     CorrectAnswer |-> r.CorrectAnswer,
     Score         |-> r.Score]

DefaultBlock ==
    [QuestionID    |-> Str("N/A"),
     Subject       |-> Str("N/A"),
     Level         |-> Str("N/A"),
     QuestionType  |-> Str("N/A"),
     StudentAnswer |-> Str("Not Answered"),
     CorrectAnswer |-> Str("N/A"),
     Score         |-> Num(0)]

\* C1: the pivot returns exactly one row per distinct studentId of its
\* input, also for the empty input: no student is lost or duplicated.
C1_RowCount ==
    Pivoted =>
        /\ Len(pivoted_df.rows) = Cardinality(DistinctStudentIds)
        /\ \A s \in DistinctStudentIds : Cardinality(OutRowsOf(s)) = 1

\* three records of two students were merged into two rows
C1_Witness ==
    /\ Pivoted
    /\ Len(Records) = 3
    /\ Cardinality(DistinctStudentIds) = 2
    /\ Len(pivoted_df.rows) = 2

\* C2: for a non-empty input the slot mapping is a bijection between the
\* distinct questionIds and 1..N, ascending in the numeric questionId (the
\* i-th smallest id has slot i), and every record is shown in the Q{slot}
\* block of its questionId's slot in its student's row: that block carries
\* the record's QuestionId and the details of a record of that student and
\* question.
C2_SlotMapping ==
    (Pivoted /\ Len(Records) > 0) =>
        LET m == q_id_to_num(raw_df)
            N == Cardinality(DistinctQuestionIds)
        IN  /\ DOMAIN m = DistinctQuestionIds
            /\ {m[q] : q \in DOMAIN m} = 1..N
            /\ \A p, q \in DOMAIN m : p[2] < q[2] => m[p] < m[q]
            /\ \A q \in DOMAIN m : m[q] = SlotOf(q)
            /\ \A i \in RecordIdx :
                  LET block == BlockOf(OutRowOf(Records[i].StudentId),
                                       SlotOf(Records[i].QuestionID))
                  IN  /\ block.QuestionID = Records[i].QuestionID
                      /\ \E j \in RecordIdx :
                            SamePair(i, j) /\ block = DetailsOf(Records[j])

\* ids 50, 10, 30 seen in an order that is not ascending: 10->1, 30->2, 50->3
C2_Witness ==
    /\ Pivoted
    /\ Len(Records) = 3
    /\ Records[1].QuestionID = Num(50)
    /\ Records[2].QuestionID = Num(10)
    /\ Records[3].QuestionID = Num(30)
    /\ BlockOf(OutRowOf(Records[1].StudentId), 3).QuestionID = Num(50)
    /\ BlockOf(OutRowOf(Records[2].StudentId), 1).QuestionID = Num(10)
    /\ BlockOf(OutRowOf(Records[3].StudentId), 2).QuestionID = Num(30)

\* C3: when several records share a (studentId, questionId) pair, every
\* field of that student's Q{slot} block comes from the first of them in
\* record order; the later ones contribute nothing.
C3_FirstDuplicateWins ==
    Pivoted =>
        \A i \in RecordIdx :
            BlockOf(OutRowOf(Records[i].StudentId), SlotOf(Records[i].QuestionID))
                = DetailsOf(Records[FirstOfPair(i)])

\* two records of one pair with different scores: the first score is shown
C3_Witness ==
    /\ Pivoted
    /\ \E i, j \in RecordIdx :
          /\ i < j
          /\ SamePair(i, j)
          /\ FirstOfPair(j) = i
          /\ Records[i].Score # Records[j].Score
          /\ Records[i].StudentAnswer # Records[j].StudentAnswer
          /\ BlockOf(OutRowOf(Records[j].StudentId),
                     SlotOf(Records[j].QuestionID)).Score = Records[i].Score

\* C4: a student row and a slot with no record of that student carry the
\* full default block: StudentAnswer "Not Answered", Score 0, the other
\* five "N/A"; no cell of it is null or missing from the table.
C4_DefaultFill ==
    Pivoted =>
        \A k \in OutIdx : \A q \in DistinctQuestionIds :
            (~\E i \in RecordIdx :
                 /\ Records[i].StudentId = pivoted_df.rows[k][<<0, "StudentId">>]
                 /\ Records[i].QuestionID = q)
            => /\ BlockOf(pivoted_df.rows[k], SlotOf(q)) = DefaultBlock
               /\ \A f \in Range(QUESTION_COLUMNS) :
                     <<SlotOf(q), f>> \in Range(pivoted_df.columns)

\* student A answers questions 10 and 50, student B only 30: A's Q2 block
\* and B's Q1 and Q3 blocks are all default
C4_Witness ==
    /\ Pivoted
    /\ Len(pivoted_df.rows) = 2
    /\ Cardinality(DistinctQuestionIds) = 3
    /\ \E a, b \in OutIdx :
          /\ BlockOf(pivoted_df.rows[a], 1).QuestionID = Num(10)
          /\ BlockOf(pivoted_df.rows[a], 2) = DefaultBlock
          /\ BlockOf(pivoted_df.rows[a], 3).QuestionID = Num(50)
          /\ BlockOf(pivoted_df.rows[b], 1) = DefaultBlock
          /\ BlockOf(pivoted_df.rows[b], 2).QuestionID = Num(30)
          /\ BlockOf(pivoted_df.rows[b], 3) = DefaultBlock

\* the declared column order
FixedStudentLabels ==
    <<<<0, "TestDate">>, <<0, "SchoolId">>, <<0, "SchoolName">>,
      <<0, "StudentId">>, <<0, "FirstName">>, <<0, "LastName">>,
      <<0, "Gender">>, <<0, "Grade">>, <<0, "Region">>>>

SlotLabels(k) ==
    <<<<k, "QuestionId">>, <<k, "Subject">>, <<k, "Level">>, <<k, "Type">>,
      <<k, "StudentAnswer">>, <<k, "CorrectAnswer">>, <<k, "Score">>>>

\* C9: for a non-empty input the columns are the nine student columns in
\* the declared order, then the blocks of slots 1..N in ascending slot
\* order, each in the order QuestionId, Subject, Level, Type, StudentAnswer,
\* CorrectAnswer, Score, and nothing else.
C9_ColumnOrder ==
    (Pivoted /\ Len(Records) > 0) =>
        pivoted_df.columns =
            FixedStudentLabels
            \o Concat([k \in 1..Cardinality(DistinctQuestionIds) |-> SlotLabels(k)])

\* a contest of two questions: the Q1 block, then the Q2 block
C9_Witness ==
    /\ Pivoted
    /\ Cardinality(DistinctQuestionIds) = 2
    /\ pivoted_df.columns = FixedStudentLabels \o SlotLabels(1) \o SlotLabels(2)

\* C10: the pivot of an empty input is the empty table, and the workbook
\* made from an empty table is one sheet holding only the title
\* "Contest ID: {contest_id}" and the no-data notice: no header row, no data
\* row, no summary sheet.
C10_EmptyInput ==
    /\ (Pivoted /\ Len(Records) = 0) => pivoted_df = EmptyFrame
    /\ (pc = "rendered" /\ empty(pivoted_df)) =>
          /\ Len(excel_buffer.sheets) = 1
          /\ DOMAIN excel_buffer.sheets[1].cells = {<<1, 1>>, <<2, 1>>}
          /\ excel_buffer.sheets[1].cells[<<1, 1>>] = FStr(<<"Contest ID: ", contest_id>>)
          /\ excel_buffer.sheets[1].cells[<<2, 1>>] =
                Str("No data found for the specified filters.")

\* an empty result set went through the pivot and the renderer
C10_Witness ==
    /\ pc = "rendered"
    /\ Len(Records) = 0
    /\ pivoted_df = EmptyFrame
    /\ Len(excel_buffer.sheets) = 1

\* the answer cell that shows record i: its student's row, its question's slot
AnswerCellOf(i) ==
    BlockOf(OutRowOf(Records[i].StudentId), SlotOf(Records[i].QuestionID)).StudentAnswer

\* the source row of record i has a blank or missing answer
BlankAnswer(i) == tr_rows[i].UserAnswer = NULL \/ tr_rows[i].UserAnswer = Str("")

\* C7 as stated: every input record whose studentAnswer is blank or missing
\* has "Not Answered" in the Q{slot}_StudentAnswer cell of its student's row.
C7_AsStated ==
    Pivoted =>
        \A i \in RecordIdx : BlankAnswer(i) => AnswerCellOf(i) = Str("Not Answered")

\* C7, amended: every input record whose studentAnswer is blank or missing
\* and which is the first record of its (studentId, questionId) pair has
\* "Not Answered" in the Q{slot}_StudentAnswer cell of its student's row.
C7_BlankAnswer ==
    Pivoted =>
        \A i \in RecordIdx :
            (BlankAnswer(i) /\ FirstOfPair(i) = i)
            => AnswerCellOf(i) = Str("Not Answered")

\* one student, one question, studentAnswer = "": Q1_StudentAnswer is
\* "Not Answered"
C7_Witness ==
    /\ Pivoted
    /\ Len(Records) = 1
    /\ tr_rows[1].UserAnswer = Str("")
    /\ pivoted_df.rows[1][<<1, "StudentAnswer">>] = Str("Not Answered")

\* the records that are the first of their student, in record order
FirstSeen == SelectIdx(Records, {i \in RecordIdx : FirstOfStudent(i) = i}, 1)

IdentityLabels ==
    {"StudentId", "FirstName", "LastName", "Gender", "Grade", "SchoolId",
     "SchoolName", "Region"}

\* the date of a timestamp, as YYYY-MM-DD text
DateText(ts) == Str(ts[2][1])

\* C8 as stated: the rows are in first-seen order of studentId and every
\* identity field of the k-th row, testDate included, is exactly that of the
\* first record of its student.
C8_AsStated ==
    Pivoted =>
        /\ Len(pivoted_df.rows) = Len(FirstSeen)
        /\ \A k \in OutIdx :
              /\ \A f \in IdentityLabels : pivoted_df.rows[k][<<0, f>>] = FirstSeen[k][f]
              /\ pivoted_df.rows[k][<<0, "TestDate">>] = FirstSeen[k].TestDate

\* C8, amended: the rows are in first-seen order of studentId and the k-th
\* row's studentId, firstName, lastName, gender, grade, schoolId, schoolName
\* and region are exactly those of the first record of its student, also when
\* later records differ; its testDate is that record's testDate formatted as
\* YYYY-MM-DD, without the time of day.
C8_FirstSeenIdentity ==
    Pivoted =>
        /\ Len(pivoted_df.rows) = Len(FirstSeen)
        /\ \A k \in OutIdx :
              /\ \A f \in IdentityLabels : pivoted_df.rows[k][<<0, f>>] = FirstSeen[k][f]
              /\ pivoted_df.rows[k][<<0, "TestDate">>] = DateText(FirstSeen[k].TestDate)

\* student S1 is seen first as Cy Kim and later as Ann Lee, S2 in between:
\* the rows are S1 (as Cy Kim), then S2
C8_Witness ==
    /\ Pivoted
    /\ Len(Records) = 3
    /\ Records[1].StudentId = Str("S1") /\ Records[1].FirstName = Str("Cy")
    /\ Records[2].StudentId = Str("S2")
    /\ Records[3].StudentId = Str("S1") /\ Records[3].FirstName = Str("Ann")
    /\ Len(pivoted_df.rows) = 2
    /\ pivoted_df.rows[1][<<0, "FirstName">>] = Str("Cy")
    /\ pivoted_df.rows[1][<<0, "TestDate">>] = Str("2024-01-05")
    /\ pivoted_df.rows[2][<<0, "StudentId">>] = Str("S2")

\* the frame raw_df with its rows in the order p
Permuted(p) ==
    [columns |-> raw_df.columns,
     rows    |-> [i \in RecordIdx |-> Records[p[i]]]]

RowOrders(n) == {p \in [1..n -> 1..n] : \A i, j \in 1..n : p[i] = p[j] => i = j}

\* C5: whatever the order of the input rows, the pivot computes the same
\* slot of every questionId and returns the same set of columns.
C5_OrderIndependentSlots ==
    Pivoted =>
        \A p \in RowOrders(Len(Records)) :
            /\ q_id_to_num(Permuted(p)) = q_id_to_num(raw_df)
            /\ Range(pivot_student_data(Permuted(p)).columns)
                  = Range(pivoted_df.columns)

\* questions 50, 10, 30 of two students, given in an order that is not
\* ascending
C5_Witness ==
    /\ Pivoted
    /\ Len(Records) = 3
    /\ Records[1].QuestionID = Num(50)
    /\ Records[2].QuestionID = Num(10)
    /\ Records[3].QuestionID = Num(30)
    /\ Records[1].StudentId # Records[2].StudentId
    /\ q_id_to_num(raw_df)[Num(50)] = 3
    /\ Len(pivoted_df.columns) = 30

\* a record without its studentId: the field is null or the frame lacks it
Malformed(r) == "StudentId" \notin DOMAIN r \/ r.StudentId = NULL

\* C6: when a record lacks a required identity field such as studentId, the
\* pivot fails and returns no table: nothing is pivoted or rendered from it.
C6_MalformedFailsFast ==
    (\E i \in RecordIdx : Malformed(Records[i])) => pc \notin {"pivoted", "rendered"}

(***************************************************************************)
(* Properties of the workbook of a non-empty table.                        *)
(***************************************************************************)
NonEmptyRendered == pc = "rendered" /\ ~empty(pivoted_df)

PrimarySheet == excel_buffer.sheets[1]
SummarySheet == excel_buffer.sheets[2]

\* the question count on the third header line: the fourth part of
\* "Students: {n} | Questions: {q}"
ReportedOnHeader == PrimarySheet.cells[<<3, 1>>][2][4]

\* the Value cell of the summary's "Total Questions" row
ReportedOnSummary ==
    LET r == CHOOSE r \in 1..6 : SummarySheet.cells[<<r, 1>>] = Str("Total Questions")
    IN  SummarySheet.cells[<<r, 2>>][2]

CellText(v) == IF v = NaN THEN Str("") ELSE v

\* C12: the primary sheet "Student Responses" of a non-empty table has the
\* three metadata lines in A1..A3, the column labels in row 4 and the k-th
\* table row in sheet row 4 + k, in the table's order, and nothing else:
\* no metadata line lies on a header or data cell.
C12_SheetLayout ==
    NonEmptyRendered =>
        LET ws == PrimarySheet
            n  == Len(pivoted_df.rows)
            m  == Len(pivoted_df.columns)
        IN  /\ ws.title = "Student Responses"
            /\ DOMAIN ws.cells =
                    {<<1, 1>>, <<2, 1>>, <<3, 1>>} \cup ((4..(4 + n)) \X (1..m))
            /\ ws.cells[<<1, 1>>] = FStr(<<"Contest ID: ", contest_id>>)
            /\ ws.cells[<<2, 1>>][1] = "fstr"
            /\ ws.cells[<<2, 1>>][2][1] = "Generated: "
            /\ ws.cells[<<3, 1>>][1] = "fstr"
            /\ ws.cells[<<3, 1>>][2][1] = "Students: "
            /\ ws.cells[<<3, 1>>][2][2] = n
            /\ \A c \in 1..m : ws.cells[<<4, c>>] = <<"label", pivoted_df.columns[c]>>
            /\ \A k \in 1..n : \A c \in 1..m :
                   ws.cells[<<4 + k, c>>] = CellText(pivoted_df.rows[k][pivoted_df.columns[c]])

\* two students: their rows are sheet rows 5 and 6, under the header in row 4
C12_Witness ==
    /\ NonEmptyRendered
    /\ Len(pivoted_df.rows) = 2
    /\ PrimarySheet.cells[<<4, 4>>] = <<"label", <<0, "StudentId">>>>
    /\ PrimarySheet.cells[<<5, 4>>] = pivoted_df.rows[1][<<0, "StudentId">>]
    /\ PrimarySheet.cells[<<6, 4>>] = pivoted_df.rows[2][<<0, "StudentId">>]
    /\ PrimarySheet.cells[<<5, 4>>] # PrimarySheet.cells[<<6, 4>>]

\* C13: the freeze-pane anchor of a non-empty table is the cell just below
\* the header row and just right of the last student column: the rows above
\* it are the metadata and header rows 1..4, the columns left of it are the
\* nine student columns, and every data row and question column is at or
\* past the anchor.
C13_FreezePanes ==
    NonEmptyRendered =>
        LET ws == PrimarySheet
            a  == ws.freeze_panes
            n  == Len(pivoted_df.rows)
            m  == Len(pivoted_df.columns)
        IN  /\ a = <<5, 10>>
            /\ \A c \in 1..m : ws.cells[<<a[1] - 1, c>>][1] = "label"
            /\ \A k \in 1..n : \A c \in 1..m : ws.cells[<<a[1] - 1 + k, c>>][1] # "label"
            /\ [c \in 1..(a[2] - 1) |-> ws.cells[<<4, c>>][2]] = FixedStudentLabels
            /\ \A c \in a[2]..m : ws.cells[<<4, c>>][2][1] >= 1

\* a sheet with data rows and question columns past the anchor
C13_Witness ==
    /\ NonEmptyRendered
    /\ PrimarySheet.freeze_panes = <<5, 10>>
    /\ Len(pivoted_df.rows) >= 2
    /\ Len(pivoted_df.columns) >= 10 + 7
    /\ PrimarySheet.cells[<<4, 10>>] = <<"label", <<1, "QuestionId">>>>

(***************************************************************************)
(* Failures of the handlers.                                               *)
(***************************************************************************)
LastCall == calls[Len(calls)]

\* C14: when a statement of generate_excel raises, the call returns no
\* buffer and the student-responses endpoint answers with an error that
\* carries no workbook; a workbook that is streamed is the whole workbook of
\* the pivoted table, never the partly written buffer of a failed call.
C14_NoPartialBuffer ==
    /\ (pc = "failed" /\ LastCall[1] = "generate_excel") =>
          /\ excel_buffer = NONE
          /\ response.status = 500
          /\ response.body = NONE
    /\ (pc = "responded" /\ endpoint = "student-responses") =>
          /\ LastCall = <<"generate_excel", "returned">>
          /\ response.status = 200
          /\ response.body = excel_buffer
          /\ response.body = generate_excel(pivoted_df, contest_id)

\* the summary sheet failed after the primary sheet was written: the buffer
\* holds one sheet, and the client is answered with HTTP 500
C14_Witness ==
    /\ pc = "failed"
    /\ LastCall = <<"generate_excel", "Exception">>
    /\ Len(buffer.sheets) = 1
    /\ buffer.sheets[1].title = "Student Responses"
    /\ excel_buffer = NONE
    /\ response.status = 500
    /\ response.body = NONE

\* C16: on each of the three endpoints, when validate_contest_exists returns
\* false the answer is HTTP 404 with detail "Contest with ID {contest_id} not
\* found", and the handler made no other call.
C16_MissingContest404 ==
    (calls # <<>> /\ LastCall = <<"validate_contest_exists", "returned False">>) =>
        /\ response.status = 404
        /\ response.detail = FStr(<<"Contest with ID ", contest_id, " not found">>)
        /\ Len(calls) = 1
        /\ raw_df = NONE /\ pivoted_df = NONE /\ excel_buffer = NONE /\ buffer = NONE

(***************************************************************************)
(* Concurrent report generations.                                          *)
(***************************************************************************)
\* C15: under every interleaving of the concurrent pivots, each call's slot
\* mapping and wide table are those of its own input pivoted alone; the
\* attributes of the shared service instance are never written, and the
\* frame a call was given stays as it was given, without a QNum column.
C15_Isolation ==
    /\ service = ExcelService
    /\ \A g \in DOMAIN gens :
          /\ gens[g].input = gens[g].given
          /\ "QNum" \notin Range(gens[g].input.columns)
          /\ gens[g].pc \in {"copy", "qnum", "pivot"} =>
                gens[g].q_id_to_num = q_id_to_num(gens[g].given)
          /\ gens[g].pc = "done" => gens[g].result = pivot_student_data(gens[g].given)

\* call 1 is done while call 2, whose input has other question ids, has
\* added QNum to its copy and not pivoted yet
C15_Witness ==
    /\ DOMAIN gens = Gens
    /\ gens[1].pc = "done"
    /\ gens[2].pc = "pivot"
    /\ DOMAIN gens[1].q_id_to_num = {Num(10), Num(30)}
    /\ gens[2].q_id_to_num = (Num(30) :> 1)
    /\ gens[1].result = pivot_student_data(gens[1].given)
    /\ "QNum" \in Range(gens[2].copy.columns)
    /\ gens[2].input = gens[2].given

(***************************************************************************)
(* Connections and cursors.                                                *)
(***************************************************************************)
\* the position of the first entry e of the log, 0 without one
Pos(e) ==
    IF \E i \in 1..Len(db.log) : db.log[i] = e
    THEN CHOOSE i \in 1..Len(db.log) : db.log[i] = e /\ \A j \in 1..(i - 1) : db.log[j] # e
    ELSE 0

\* C17: once the with block of a query-service call has been left, by return
\* or by exception, every connection opened so far is closed, so none is
\* open when the call returns or raises; and a connection that is closed had
\* its cursor, if get_cursor made one, closed before it.
C17_ConnectionsClosed ==
    /\ db.pc \in {"method_exit", "idle"} =>
          \A c \in 1..Len(db.conns) : db.conns[c] = "closed"
    /\ \A k \in 1..Len(db.cursors) :
          db.conns[db.cursors[k].conn] = "closed" =>
              /\ db.cursors[k].state = "closed"
              /\ Pos(<<"cursor.close", db.cursors[k].conn>>) > 0
              /\ Pos(<<"cursor.close", db.cursors[k].conn>>)
                     < Pos(<<"close", db.cursors[k].conn>>)

\* a call through get_cursor whose body raised: the cursor was closed, then
\* the connection, and the call raised DatabaseError
C17_Witness ==
    /\ db.pc = "idle"
    /\ db.last = "raised"
    /\ db.exc.type = "DatabaseError"
    /\ db.log = <<<<"connect", 1>>, <<"cursor", 1>>, <<"cursor.close", 1>>, <<"close", 1>>>>
    /\ db.conns = <<"closed">>
    /\ db.cursors = <<[conn |-> 1, state |-> "closed"]>>

====
